---- MODULE Spec2Model ----
(***************************************************************************)
(* Model of the XOR network visualizer: the seeded generator, the dataset  *)
(* generator, the Network engine (web/src/network/Network.ts) and the      *)
(* training orchestrator (the useTraining hook as wired by App.tsx and     *)
(* TrainingControls.tsx).                                                  *)
(*                                                                         *)
(* Numbers.  A JavaScript number that holds a real quantity (a weight, an  *)
(* activation, a loss) is held in fixed point: the integer n stands for    *)
(* n / FixOne.  Math.exp, Math.log, Math.sqrt and Math.cos are replaced    *)
(* by integer approximants of the same monotonicity (Sigmoid, LnFix,       *)
(* SqrtNeg2Ln, Cos2Pi).  The 32-bit words of the generator are exact: a    *)
(* word is the pair <<hi, lo>> of its 16-bit halves.                       *)
(*                                                                         *)
(* React.  setTraining(updater) queues an update; queued updates are       *)
(* applied in order, so the variable training holds the state with every   *)
(* queued update applied.  Handlers and the auto-play timer close over the *)
(* values of the last committed render, held in view.  Render commits the  *)
(* queued state, runs the render-time forward queries and the effects.     *)
(***************************************************************************)
EXTENDS Integers, Sequences, FiniteSets, TLC

\* ------------------------------------------------------------- bounds
\* Longest history the model lets trainStep build (the code has no cap).
MaxSteps == 3
\* Most handler calls between two renders.
MaxPending == 2
\* Dataset sizes offered are 1..MaxSamples (the code offers 50..500).
MaxSamples == 2
\* Most changes of a setting (learning rate, noise, samples, data seed,
\* confidence penalty, selected input) in one run.
MaxControlChanges == 1
\* Fixed-point resolution: the integer FixOne stands for 1.0.
FixOne == 8
\* Calls of random() the generator run follows after the warm-up.
MaxGenDraws == 6
\* Most calls (generateNoisyData, new Network) the generator run records.
MaxGenCalls == 3
\* Most method calls on an engine used directly.
MaxEngineOps == 4
\* Most method calls on an engine, its exported state and its copy.
MaxSnapshotOps == 5

\* ------------------------------------------------------------ numbers
Max(a, b) == IF a >= b THEN a ELSE b
Min(a, b) == IF a <= b THEN a ELSE b
FMul(a, b) == (a * b) \div FixOne
FDiv(a, b) == (a * FixOne) \div b
Half == FixOne \div 2

RECURSIVE SumSeq(_)
SumSeq(s) == IF s = <<>> THEN 0 ELSE Head(s) + SumSeq(Tail(s))

ISqrt(n) == CHOOSE r \in 0..n : r * r <= n /\ (r + 1) * (r + 1) > n

\* ------------------------------------------- seeded generator (32 bit)
Lo16Mask == 65535
Two16 == Lo16Mask + 1
SeedMulW == 1103515245
SeedAddW == 12345
SeedMulZ == 134775813
SeedAddZ == 1
MulZ == 36969
MulW == 18000
WarmUp == 10

\* c * x as a 32-bit word, for 0 <= c, x < 2^16 (no product leaves 2^31).
MulLo16(c, x) ==
  LET p1 == c * (x \div 256)
      p0 == c * (x % 256)
      t  == (p1 % 256) * 256 + p0
  IN  <<((p1 \div 256) + (t \div Two16)) % Two16, t % Two16>>

\* (seed * mul + add) >>> 0, then "if (m === 0) m = 1".
SeedLane(seed, mul, add) ==
  LET sh == (seed \div Two16) % Two16
      sl == seed % Two16
      mh == mul \div Two16
      ml == mul % Two16
      p  == MulLo16(sl, ml)
      t  == p[2] + add
      hi == (p[1] + MulLo16(sl, mh)[2] + MulLo16(sh, ml)[2] + (t \div Two16)) % Two16
      lo == t % Two16
  IN  IF hi = 0 /\ lo = 0 THEN <<0, 1>> ELSE <<hi, lo>>

\* A variant of the lane update that drops the carried high half.
NextLane_NoCarry(c, m) == MulLo16(c, m[2])

\* (c * (m & 65535) + (m >> 16)) & mask; ">>" is the signed shift of the
\* 32-bit word m, so a word with its top bit set contributes a negative term.
NextLane(c, m) ==
  LET s == IF m[1] >= Two16 \div 2 THEN m[1] - Two16 ELSE m[1]
      p == MulLo16(c, m[2])
      t == p[2] + s
  IN  <<(p[1] + (t \div Two16)) % Two16, t % Two16>>

\* (m_z << 16) + (m_w & 65535): "<<" yields a signed 32-bit integer, so the
\* sum lies in -2^31 .. 2^31 - 1.
Shl16Add(z, w) ==
  (IF z[2] >= Two16 \div 2 THEN z[2] - Two16 ELSE z[2]) * Two16 + w[2]

\* A variant of ">>> 0" that keeps the sign of its operand.
ToUint32_KeepsSign(v) == <<v \div Two16, v % Two16>>

\* v >>> 0: the unsigned 32-bit word of the integer v, as <<hi, lo>>.
ToUint32(v) == <<(v \div Two16) % Two16, v % Two16>>

\* One call of random(): the new lanes and result = ((m_z << 16) + (m_w & 65535)) >>> 0.
random(g) ==
  LET z == NextLane(MulZ, g.m_z)
      w == NextLane(MulW, g.m_w)
  IN  [gen |-> [m_w |-> w, m_z |-> z], result |-> ToUint32(Shl16Add(z, w))]

\* What n calls of random() in a row return, from generator state g (the
\* run is split in halves so that the evaluation nests log n deep).
RECURSIVE Calls(_, _)
Calls(g, n) ==
  IF n = 0 THEN <<>>
  ELSE IF n = 1 THEN <<random(g)>>
  ELSE LET a == Calls(g, n \div 2)
       IN  a \o Calls(a[Len(a)].gen, n - n \div 2)

\* The generator after n calls.
Discard(g, n) == IF n = 0 THEN g ELSE Calls(g, n)[n].gen

\* The lanes as seededRandom seeds them, before the warm-up.
SeedLanes(seed) ==
  [m_w |-> SeedLane(seed, SeedMulW, SeedAddW),
   m_z |-> SeedLane(seed, SeedMulZ, SeedAddZ)]

\* Both lanes seeded, then "for (let i = 0; i < 10; i++) random()".
seededRandom(seed) == Discard(SeedLanes(seed), WarmUp)

\* No generator: what an earlier call left behind before any call was made.
NoGenerator == [m_w |-> <<0, 0>>, m_z |-> <<0, 0>>]

\* A variant in which the lanes outlive the call that seeded them.
SeededRandomCall_SharedLanes(seed, earlier) ==
  IF earlier = NoGenerator THEN seededRandom(seed) ELSE earlier

\* The generator a call of seededRandom(seed) returns when earlier is the
\* generator an earlier call left behind: m_w and m_z are locals of the call,
\* so earlier plays no part.
SeededRandomCall(seed, earlier) == seededRandom(seed)

\* The first n results of generator g, in order.
Draws(g, n) == LET c == Calls(g, n) IN [k \in 1..n |-> c[k].result]

\* result / 4294967296 in fixed point (rounded down).
ToFix(u) == (u[1] * FixOne) \div Two16

\* ------------------------------------------- loss and activation functions
\* eps = 1e-7: the smallest positive fixed-point number stands for it.
Eps == 1
Clamp(lo, v, hi) == Max(lo, Min(hi, v))

\* 1 / (1 + exp(-x)): increasing, 0.5 at 0, within [0, 1].
Sigmoid(x) == Clamp(0, Half + x \div 4, FixOne)
sigmoid(v) == [i \in 1..Len(v) |-> Sigmoid(v[i])]

\* Math.log(p) for 0 < p <= 1: increasing, 0 at 1.
LnFix(p) == 2 * (p - FixOne)

binaryCrossEntropy(predicted, target) ==
  LET term(i) ==
        LET p == Max(Eps, Min(FixOne - Eps, predicted[i]))
        IN  0 - (FMul(target[i], LnFix(p)) + FMul(FixOne - target[i], LnFix(FixOne - p)))
  IN  SumSeq([i \in 1..Len(predicted) |-> term(i)]) \div Len(predicted)

calcConfidencePenalty(predicted) ==
  SumSeq([i \in 1..Len(predicted) |-> 4 * FMul(predicted[i], FixOne - predicted[i])])
    \div Len(predicted)

\* ------------------------------------------------------ dataset generator
\* noiseLevel is held in steps of the slider: n stands for n / NoiseDen.
NoiseDen == 20

\* rand() < noiseLevel, exactly, on the 32-bit result.
BelowNoise(u, noiseLevel) ==
  NoiseDen * u[1] + ((NoiseDen * u[2]) \div Two16) < noiseLevel * Two16

Bit(b) == IF b THEN 1 ELSE 0

\* The loop of generateNoisyData over the generator rand: point i takes its
\* results 3i-2, 3i-1 and 3i (x1, x2, the flip).
NoisyDataFrom(numSamples, noiseLevel, rand) ==
  LET d == Draws(rand, 3 * numSamples)
      point(i) ==
        LET x1 == d[3 * i - 2]
            x2 == d[3 * i - 1]
            trueLabel == (Bit(x1[1] >= Two16 \div 2) + Bit(x2[1] >= Two16 \div 2)) % 2
            isNoisy == BelowNoise(d[3 * i], noiseLevel)
            label == IF isNoisy THEN 1 - trueLabel ELSE trueLabel
        IN  [input |-> <<ToFix(x1), ToFix(x2)>>,
             target |-> <<label * FixOne>>,
             trueTarget |-> <<trueLabel * FixOne>>,
             isNoisy |-> isNoisy]
  IN  [i \in 1..numSamples |-> point(i)]

\* A variant of generateNoisyData that takes the flip from the draw of x2
\* (two draws per point).
generateNoisyData_ReusesDraw(numSamples, noiseLevel, seed) ==
  LET d == Draws(seededRandom(seed), 2 * numSamples)
      point(i) ==
        LET x1 == d[2 * i - 1]
            x2 == d[2 * i]
            trueLabel == (Bit(x1[1] >= Two16 \div 2) + Bit(x2[1] >= Two16 \div 2)) % 2
            isNoisy == BelowNoise(x2, noiseLevel)
            label == IF isNoisy THEN 1 - trueLabel ELSE trueLabel
        IN  [input |-> <<ToFix(x1), ToFix(x2)>>,
             target |-> <<label * FixOne>>,
             trueTarget |-> <<trueLabel * FixOne>>,
             isNoisy |-> isNoisy]
  IN  [i \in 1..numSamples |-> point(i)]

generateNoisyData(numSamples, noiseLevel, seed) ==
  NoisyDataFrom(numSamples, noiseLevel, seededRandom(seed))

CLEAN_XOR ==
  << [input |-> <<0, 0>>, target |-> <<0>>],
     [input |-> <<0, FixOne>>, target |-> <<FixOne>>],
     [input |-> <<FixOne, 0>>, target |-> <<FixOne>>],
     [input |-> <<FixOne, FixOne>>, target |-> <<0>>] >>

\* ----------------------------------------------------------- Network engine
DEFAULT_LAYER_SIZES == <<2, 4, 1>>

\* Number of weights before layer i (1-based) in construction order.
RECURSIVE WeightsBefore(_, _)
WeightsBefore(layerSizes, i) ==
  IF i = 1 THEN 0
  ELSE WeightsBefore(layerSizes, i - 1) + layerSizes[i - 1] * layerSizes[i]

NumWeights(layerSizes) == WeightsBefore(layerSizes, Len(layerSizes))

\* Math.sqrt(-2 * Math.log(u1)): decreasing in u1, 0 at 1.
SqrtNeg2Ln(u1) == 2 * (FixOne - ToFix(u1))
\* Math.cos(2 * Math.PI * u2): 1 at 0, -1 at 0.5, 1 at 1.
Cos2Pi(u2) ==
  LET f == ToFix(u2)
  IN  IF 2 * f <= FixOne THEN FixOne - 4 * f ELSE 4 * f - 3 * FixOne

\* What the constructor passes to Math.log for the draw u1: u1 itself.
LogArg(u1) == u1

\* Infinity, the value of Math.sqrt(-2 * Math.log(0)): beyond every finite
\* number of the model.
Infinity == Two16 * (Two16 \div 4)

\* The constructor, given the results random() returns in order: the seeded
\* generator's for a seed, Math.random's without one.
NetworkFrom(layerSizes, draws) ==
  LET weight(i, j, k) ==
        LET idx   == WeightsBefore(layerSizes, i) + (j - 1) * layerSizes[i + 1] + (k - 1)
            u1    == LogArg(draws[2 * idx + 1])
            cos   == Cos2Pi(draws[2 * idx + 2])
            z     == FMul(SqrtNeg2Ln(u1), cos)
            scale == ISqrt((2 * FixOne * FixOne) \div layerSizes[i])
        IN  IF u1 = <<0, 0>>
            THEN (IF cos >= 0 THEN Infinity ELSE 0 - Infinity)
            ELSE FMul(z, scale)
  IN  [layerSizes     |-> layerSizes,
       weights        |-> [i \in 1..(Len(layerSizes) - 1) |->
                            [j \in 1..layerSizes[i] |->
                              [k \in 1..layerSizes[i + 1] |-> weight(i, j, k)]]],
       biases         |-> [i \in 1..(Len(layerSizes) - 1) |->
                            [k \in 1..layerSizes[i + 1] |-> 0]],
       preActivations |-> <<>>,
       activations    |-> <<>>,
       weightGrads    |-> <<>>,
       biasGrads      |-> <<>>]

\* The generator the constructor builds for itself when it is given a seed
\* (its own copy of the scheme, with its own constants).
CtorSeedMulW == 1103515245
CtorSeedAddW == 12345
CtorSeedMulZ == 134775813
CtorSeedAddZ == 1
CtorMulZ == 36969
CtorMulW == 18000
CtorWarmUp == 10

\* A variant of the constructor's random() with the two multipliers swapped.
CtorRandom_SwapsMultipliers(g) ==
  LET z == NextLane(CtorMulW, g.m_z)
      w == NextLane(CtorMulZ, g.m_w)
  IN  [gen |-> [m_w |-> w, m_z |-> z], result |-> ToUint32(Shl16Add(z, w))]

\* One call of the constructor's random().
CtorRandom(g) ==
  LET z == NextLane(CtorMulZ, g.m_z)
      w == NextLane(CtorMulW, g.m_w)
  IN  [gen |-> [m_w |-> w, m_z |-> z], result |-> ToUint32(Shl16Add(z, w))]

\* What n calls of the constructor's random() in a row return.
RECURSIVE CtorCalls(_, _)
CtorCalls(g, n) ==
  IF n = 0 THEN <<>>
  ELSE IF n = 1 THEN <<CtorRandom(g)>>
  ELSE LET a == CtorCalls(g, n \div 2)
       IN  a \o CtorCalls(a[Len(a)].gen, n - n \div 2)

\* A variant of the constructor's seeding that does not use the seed.
CtorSeedLanes_IgnoresSeed(seed) ==
  [m_w |-> SeedLane(0, CtorSeedMulW, CtorSeedAddW),
   m_z |-> SeedLane(0, CtorSeedMulZ, CtorSeedAddZ)]

\* The lanes as the constructor seeds them, before the warm-up.
CtorSeedLanes(seed) ==
  [m_w |-> SeedLane(seed, CtorSeedMulW, CtorSeedAddW),
   m_z |-> SeedLane(seed, CtorSeedMulZ, CtorSeedAddZ)]

\* The constructor's generator after its warm-up loop.
CtorSeeded(seed) == CtorCalls(CtorSeedLanes(seed), CtorWarmUp)[CtorWarmUp].gen

\* A variant in which the constructor's lanes outlive the construction.
CtorSeededCall_SharedLanes(seed, earlier) ==
  IF earlier = NoGenerator THEN CtorSeeded(seed) ELSE earlier

\* The generator a construction with a seed uses when earlier is the
\* generator an earlier construction or call left behind: the lanes are
\* locals of the constructor.
CtorSeededCall(seed, earlier) == CtorSeeded(seed)

\* The first n results of the constructor's generator g, in order.
CtorDraws(g, n) == LET c == CtorCalls(g, n) IN [k \in 1..n |-> c[k].result]

Network(layerSizes, seed) ==
  NetworkFrom(layerSizes, CtorDraws(CtorSeeded(seed), 2 * NumWeights(layerSizes)))

RECURSIVE ForwardFrom(_, _, _, _, _)
ForwardFrom(net, layerIdx, activation, pre, acts) ==
  IF layerIdx > Len(net.weights)
  THEN [net EXCEPT !.preActivations = pre, !.activations = acts]
  ELSE LET w == net.weights[layerIdx]
           b == net.biases[layerIdx]
           z == [j \in 1..Len(w[1]) |->
                  SumSeq([i \in 1..Len(activation) |-> FMul(activation[i], w[i][j])]) + b[j]]
           out == IF layerIdx = Len(net.weights)
                  THEN z
                  ELSE [j \in 1..Len(z) |-> Max(0, z[j])]
       IN  ForwardFrom(net, layerIdx + 1, out, Append(pre, z), Append(acts, out))

\* forward(x): the engine afterwards; its return value is Output of it.
forward(net, x) == ForwardFrom(net, 1, x, <<>>, <<x>>)
Output(net) == net.activations[Len(net.activations)]

RECURSIVE BackFrom(_, _, _, _, _)
BackFrom(net, i, delta, wg, bg) ==
  IF i = 0
  THEN [net EXCEPT !.weightGrads = wg, !.biasGrads = bg]
  ELSE LET activationIn == net.activations[i]
           wgi == [j \in 1..Len(wg[i]) |->
                    [k \in 1..Len(wg[i][j]) |->
                      IF j <= Len(activationIn) /\ k <= Len(delta)
                      THEN FMul(activationIn[j], delta[k])
                      ELSE wg[i][j][k]]]
           newDelta == [j \in 1..Len(activationIn) |->
                         SumSeq([k \in 1..Len(delta) |-> FMul(delta[k], net.weights[i][j][k])])]
           next == IF i > 1
                   THEN [j \in 1..Len(newDelta) |->
                          IF net.preActivations[i - 1][j] > 0 THEN newDelta[j] ELSE 0]
                   ELSE delta
       IN  BackFrom(net, i - 1, next, [wg EXCEPT ![i] = wgi], [bg EXCEPT ![i] = delta])

backward(net, target, confidencePenalty) ==
  LET output == sigmoid(Output(net))
      p      == [i \in 1..Len(output) |-> Max(Eps, Min(FixOne - Eps, output[i]))]
      grad(i) == FDiv(0 - target[i], p[i]) + FDiv(FixOne - target[i], FixOne - p[i])
                 + (IF confidencePenalty > 0
                    THEN FMul(confidencePenalty, 4 * (FixOne - 2 * p[i]))
                    ELSE 0)
      delta  == [i \in 1..Len(target) |-> FMul(grad(i), FMul(output[i], FixOne - output[i]))]
      wg0    == [i \in 1..Len(net.weights) |->
                  [j \in 1..Len(net.weights[i]) |->
                    [k \in 1..Len(net.weights[i][j]) |-> 0]]]
      bg0    == [i \in 1..Len(net.biases) |-> [k \in 1..Len(net.biases[i]) |-> 0]]
  IN  BackFrom(net, Len(net.weights), delta, wg0, bg0)

\* A variant of step that moves every parameter up its gradient.
step_AddsGradient(net, learningRate) ==
  [net EXCEPT
     !.weights = [i \in 1..Len(net.weights) |->
                   [j \in 1..Len(net.weights[i]) |->
                     [k \in 1..Len(net.weights[i][j]) |->
                       net.weights[i][j][k] + FMul(learningRate, net.weightGrads[i][j][k])]]],
     !.biases  = [i \in 1..Len(net.biases) |->
                   [j \in 1..Len(net.biases[i]) |->
                     net.biases[i][j] + FMul(learningRate, net.biasGrads[i][j])]]]

step(net, learningRate) ==
  [net EXCEPT
     !.weights = [i \in 1..Len(net.weights) |->
                   [j \in 1..Len(net.weights[i]) |->
                     [k \in 1..Len(net.weights[i][j]) |->
                       net.weights[i][j][k] - FMul(learningRate, net.weightGrads[i][j][k])]]],
     !.biases  = [i \in 1..Len(net.biases) |->
                   [j \in 1..Len(net.biases[i]) |->
                     net.biases[i][j] - FMul(learningRate, net.biasGrads[i][j])]]]

getState(net) ==
  [weights        |-> net.weights,
   biases         |-> net.biases,
   preActivations |-> net.preActivations,
   activations    |-> net.activations,
   weightGrads    |-> net.weightGrads,
   biasGrads      |-> net.biasGrads]

\* A variant of setState that leaves the weights of the receiving engine.
setState_SkipsWeights(net, state) ==
  [net EXCEPT !.biases         = state.biases,
              !.preActivations = state.preActivations,
              !.activations    = state.activations,
              !.weightGrads    = state.weightGrads,
              !.biasGrads      = state.biasGrads]

setState(net, state) ==
  [net EXCEPT !.weights        = state.weights,
              !.biases         = state.biases,
              !.preActivations = state.preActivations,
              !.activations    = state.activations,
              !.weightGrads    = state.weightGrads,
              !.biasGrads      = state.biasGrads]

\* ---------------------------------------------------- arrays with identity
\* The engine's arrays live in a heap: a sequence of arrays, an array being
\* the sequence of its elements and an address its position in the heap.
\* The elements of a row are numbers, the elements of an outer array are the
\* addresses of its inner arrays.  An engine object, or an exported state
\* object, holds the addresses of its outermost arrays.

\* The value held at address a, read depth levels deep.
RECURSIVE Val(_, _, _)
Val(h, a, depth) ==
  IF depth = 1 THEN h[a]
  ELSE [i \in 1..Len(h[a]) |-> Val(h, h[a][i], depth - 1)]

\* Fresh arrays holding the nested value v: the new heap and v's address.
RECURSIVE Store(_, _, _)
RECURSIVE StoreElems(_, _, _, _, _)
Store(h, v, depth) ==
  IF depth = 1 THEN [heap |-> Append(h, v), addr |-> Len(h) + 1]
  ELSE LET r == StoreElems(h, v, depth - 1, 1, <<>>)
       IN  [heap |-> Append(r.heap, r.addrs), addr |-> Len(r.heap) + 1]
StoreElems(h, v, depth, i, addrs) ==
  IF i > Len(v) THEN [heap |-> h, addrs |-> addrs]
  ELSE LET c == Store(h, v[i], depth)
       IN  StoreElems(c.heap, v, depth, i + 1, Append(addrs, c.addr))

\* "[...b]" is Copy with 1 level, "x.map(b => [...b])" with 2 and
\* "x.map(w => w.map(row => [...row]))" with 3: that many levels of arrays
\* are new, and what lies below them is shared with the original.
RECURSIVE Copy(_, _, _)
RECURSIVE CopyElems(_, _, _, _, _)
Copy(h, a, levels) ==
  IF levels = 1 THEN [heap |-> Append(h, h[a]), addr |-> Len(h) + 1]
  ELSE LET r == CopyElems(h, h[a], levels - 1, 1, <<>>)
       IN  [heap |-> Append(r.heap, r.addrs), addr |-> Len(r.heap) + 1]
CopyElems(h, elems, levels, i, addrs) ==
  IF i > Len(elems) THEN [heap |-> h, addrs |-> addrs]
  ELSE LET c == Copy(h, elems[i], levels)
       IN  CopyElems(c.heap, elems, levels, i + 1, Append(addrs, c.addr))

\* The engine object net of heap h, by value.
NetworkVal(h, net) ==
  [layerSizes     |-> net.layerSizes,
   weights        |-> Val(h, net.weights, 3),
   biases         |-> Val(h, net.biases, 2),
   preActivations |-> Val(h, net.preActivations, 2),
   activations    |-> Val(h, net.activations, 2),
   weightGrads    |-> Val(h, net.weightGrads, 3),
   biasGrads      |-> Val(h, net.biasGrads, 2)]

\* The exported state object state of heap h, by value.
StateVal(h, state) ==
  [weights        |-> Val(h, state.weights, 3),
   biases         |-> Val(h, state.biases, 2),
   preActivations |-> Val(h, state.preActivations, 2),
   activations    |-> Val(h, state.activations, 2),
   weightGrads    |-> Val(h, state.weightGrads, 3),
   biasGrads      |-> Val(h, state.biasGrads, 2)]

\* The object the constructor leaves, for the parameters v it computed: the
\* four field initialisers "= []" are arrays of their own.
NetworkAt(h, v) ==
  LET w == Store(h, v.weights, 3)
      b == Store(w.heap, v.biases, 2)
      a == b.addr
  IN  [heap |-> b.heap \o <<<<>>, <<>>, <<>>, <<>>>>,
       net  |-> [layerSizes |-> v.layerSizes, weights |-> w.addr, biases |-> a,
                 preActivations |-> a + 1, activations |-> a + 2,
                 weightGrads |-> a + 3, biasGrads |-> a + 4],
       threw |-> "none"]

\* forward(x) reads w[i].length for every index i of the activation: with
\* more inputs than rows w[i] is undefined and the read throws a TypeError.
ForwardThrows(net, x) == Len(x) > Len(net.weights[1])

\* A variant of forward that sums each layer into the bias array itself
\* ("const z = b") instead of a new array.
forwardAt_SumsIntoBias(h, net, x) ==
  LET v == NetworkVal(h, net)
  IN  IF ForwardThrows(v, h[x])
      THEN [heap |-> h, net |-> net, threw |-> "TypeError"]
      ELSE LET r == forward(v, h[x])
               L == Len(v.weights)
               biasOf(i) == h[net.biases][i]
               h1 == [a \in 1..Len(h) |->
                       IF \E i \in 1..L : biasOf(i) = a
                       THEN r.preActivations[CHOOSE i \in 1..L : biasOf(i) = a]
                       ELSE h[a]]
               acts == Store(h1, r.activations, 2)
           IN  [heap |-> Append(acts.heap, h[net.biases]),
                net  |-> [net EXCEPT !.activations = acts.addr,
                                     !.preActivations = Len(acts.heap) + 1],
                threw |-> "none"]

\* forward(x) on the object net, x being the address of the caller's array.
\* activations[0] is the caller's array itself; the last pre-activation
\* and the last activation are one array.
forwardAt(h, net, x) ==
  LET v    == NetworkVal(h, net)
      base == Len(h)
  IN  IF ForwardThrows(v, h[x])
      THEN [heap |-> h \o <<<<x>>, <<>>>>,
            net  |-> [net EXCEPT !.activations = base + 1, !.preActivations = base + 2],
            threw |-> "TypeError"]
      ELSE LET r == forward(v, h[x])
               L == Len(v.weights)
               pre  == [l \in 1..L |-> base + 2 * l - 1]
               acts == [m \in 1..(L + 1) |->
                         IF m = 1 THEN x
                         ELSE IF m = L + 1 THEN base + 2 * L - 1
                         ELSE base + 2 * (m - 1)]
               cells == [c \in 1..(2 * L + 1) |->
                          IF c = 2 * L THEN pre
                          ELSE IF c = 2 * L + 1 THEN acts
                          ELSE IF c % 2 = 1 THEN r.preActivations[(c + 1) \div 2]
                          ELSE r.activations[c \div 2 + 1]]
           IN  [heap |-> h \o cells,
                net  |-> [net EXCEPT !.preActivations = base + 2 * L,
                                     !.activations = base + 2 * L + 1],
                threw |-> "none"]

\* A variant of backward that drops the stored activations when it is done.
backwardAt_ClearsActivations(h, net, target, confidencePenalty) ==
  LET r  == backward(NetworkVal(h, net), target, confidencePenalty)
      wg == Store(h, r.weightGrads, 3)
      bg == Store(wg.heap, r.biasGrads, 2)
  IN  [heap |-> Append(bg.heap, <<>>),
       net  |-> [net EXCEPT !.weightGrads = wg.addr, !.biasGrads = bg.addr,
                            !.activations = Len(bg.heap) + 1],
       threw |-> "none"]

\* backward(x, target, confidencePenalty) on the object net: the gradient
\* arrays are new ones ("this.weights.map(...)", "[...delta]").
backwardAt(h, net, target, confidencePenalty) ==
  LET r  == backward(NetworkVal(h, net), target, confidencePenalty)
      wg == Store(h, r.weightGrads, 3)
      bg == Store(wg.heap, r.biasGrads, 2)
  IN  [heap |-> bg.heap,
       net  |-> [net EXCEPT !.weightGrads = wg.addr, !.biasGrads = bg.addr],
       threw |-> "none"]

\* step reads this.weightGrads[i][j][k]: where weightGrads has no layer i
\* the read throws a TypeError, before anything is written.
StepThrows(net) == \E i \in 1..Len(net.weights) : i > Len(net.weightGrads)

\* step(learningRate) on the object net: the rows of weights and the arrays
\* of biases are written in place.
stepAt(h, net, learningRate) ==
  LET v == NetworkVal(h, net)
  IN  IF StepThrows(v)
      THEN [heap |-> h, net |-> net, threw |-> "TypeError"]
      ELSE LET r == step(v, learningRate)
               layers == 1..Len(v.weights)
               rowOf(i, j) == h[h[net.weights][i]][j]
               biasOf(i) == h[net.biases][i]
               written(a) ==
                 IF \E i \in layers : \E j \in 1..Len(v.weights[i]) : rowOf(i, j) = a
                 THEN LET i == CHOOSE i \in layers :
                                 \E j \in 1..Len(v.weights[i]) : rowOf(i, j) = a
                          j == CHOOSE j \in 1..Len(v.weights[i]) : rowOf(i, j) = a
                      IN  r.weights[i][j]
                 ELSE IF \E i \in layers : biasOf(i) = a
                 THEN r.biases[CHOOSE i \in layers : biasOf(i) = a]
                 ELSE h[a]
           IN  [heap |-> [a \in 1..Len(h) |-> written(a)], net |-> net, threw |-> "none"]

\* A variant of getState that copies the layers of weights but not their rows.
getStateAt_SharesRows(h, net) ==
  LET w  == Copy(h, net.weights, 2)
      b  == Copy(w.heap, net.biases, 2)
      p  == Copy(b.heap, net.preActivations, 2)
      a  == Copy(p.heap, net.activations, 2)
      wg == Copy(a.heap, net.weightGrads, 3)
      bg == Copy(wg.heap, net.biasGrads, 2)
  IN  [heap  |-> bg.heap,
       state |-> [weights |-> w.addr, biases |-> b.addr, preActivations |-> p.addr,
                  activations |-> a.addr, weightGrads |-> wg.addr, biasGrads |-> bg.addr]]

\* getState() of the object net: the new heap and the exported state object.
getStateAt(h, net) ==
  LET w  == Copy(h, net.weights, 3)
      b  == Copy(w.heap, net.biases, 2)
      p  == Copy(b.heap, net.preActivations, 2)
      a  == Copy(p.heap, net.activations, 2)
      wg == Copy(a.heap, net.weightGrads, 3)
      bg == Copy(wg.heap, net.biasGrads, 2)
  IN  [heap  |-> bg.heap,
       state |-> [weights |-> w.addr, biases |-> b.addr, preActivations |-> p.addr,
                  activations |-> a.addr, weightGrads |-> wg.addr, biasGrads |-> bg.addr]]

\* setState(state) on the object net.
setStateAt(h, net, state) ==
  LET w  == Copy(h, state.weights, 3)
      b  == Copy(w.heap, state.biases, 2)
      p  == Copy(b.heap, state.preActivations, 2)
      a  == Copy(p.heap, state.activations, 2)
      wg == Copy(a.heap, state.weightGrads, 3)
      bg == Copy(wg.heap, state.biasGrads, 2)
  IN  [heap |-> bg.heap,
       net  |-> [net EXCEPT !.weights = w.addr, !.biases = b.addr,
                            !.preActivations = p.addr, !.activations = a.addr,
                            !.weightGrads = wg.addr, !.biasGrads = bg.addr],
       threw |-> "none"]

\* liveAccuracy and computeCleanMetrics count a point as correct when the
\* class of the output (1 when sigmoid(output) >= 0.5, else 0) is its target.
LiveCorrect(net, point) ==
  LET sigmoidOutput == sigmoid(Output(forward(net, point.input)))
      predicted == IF 2 * sigmoidOutput[1] >= FixOne THEN FixOne ELSE 0
  IN  predicted = point.target[1]

\* PredictionsPanel marks a point as correct when
\* Math.abs(output - data.target[0]) < 0.5.
PanelCorrect(net, point) ==
  LET sigmoidOutput == sigmoid(Output(forward(net, point.input)))
      diff == sigmoidOutput[1] - point.target[1]
  IN  2 * (IF diff < 0 THEN 0 - diff ELSE diff) < FixOne

\* ------------------------------------------------- training orchestrator
\* Values the model offers for the controls.  The code's defaults are
\* learningRate 0.5, noiseLevel 0, dataSeed 42, confidencePenalty 0.
LearningRates == {Half, FixOne}
NoiseLevels == {0, NoiseDen \div 2}
SampleCounts == 1..MaxSamples
DefaultDataSeed == 42
OtherDataSeed == 7
DataSeeds == {DefaultDataSeed, OtherDataSeed}
ConfidencePenalties == {0, Half}
ResetSeed == 123
OtherInitSeed == 456
RandomizeSeeds == {ResetSeed, OtherInitSeed}
\* The predictions the model lets the user select: the first and the last.
SelectableInputs == {0, Len(CLEAN_XOR) - 1}

\* Math.random: what the unseeded constructor draws is any stream of values.
MathRandomDraws ==
  {Draws(seededRandom(s), 2 * NumWeights(DEFAULT_LAYER_SIZES)) : s \in {1, 2}}
\* new Network(prev.network.layerSizes): the engines the unseeded constructor
\* can build (every engine of the program has the default layer sizes).
FreshNetworks == {NetworkFrom(DEFAULT_LAYER_SIZES, d) : d \in MathRandomDraws}

\* useMemo(() => generateNoisyData(numSamples, noiseLevel, dataSeed)).
TrainingDataTable ==
  [n \in SampleCounts, nl \in NoiseLevels, sd \in DataSeeds |-> generateNoisyData(n, nl, sd)]
trainingData(params) == TrainingDataTable[params.numSamples, params.noiseLevel, params.dataSeed]

\* The engine after the loop's forward calls, and the loss returned.
RECURSIVE TrainLossFrom(_, _, _, _, _)
TrainLossFrom(net, data, idx, confPenalty, totalLoss) ==
  IF idx > Len(data)
  THEN [net |-> net, loss |-> totalLoss \div Len(data)]
  ELSE LET n1 == forward(net, data[idx].input)
           sigmoidOutput == sigmoid(Output(n1))
           loss == binaryCrossEntropy(sigmoidOutput, data[idx].target)
                   + (IF confPenalty > 0
                      THEN FMul(confPenalty, calcConfidencePenalty(sigmoidOutput))
                      ELSE 0)
       IN  TrainLossFrom(n1, data, idx + 1, confPenalty, totalLoss + loss)

computeTrainLoss(net, data, confPenalty) == TrainLossFrom(net, data, 1, confPenalty, 0)

RECURSIVE CleanMetricsFrom(_, _, _, _)
CleanMetricsFrom(net, idx, totalLoss, correct) ==
  IF idx > Len(CLEAN_XOR)
  THEN [net |-> net,
        loss |-> totalLoss \div Len(CLEAN_XOR),
        accuracy |-> (correct * FixOne) \div Len(CLEAN_XOR)]
  ELSE LET n1 == forward(net, CLEAN_XOR[idx].input)
           sigmoidOutput == sigmoid(Output(n1))
           predicted == IF 2 * sigmoidOutput[1] >= FixOne THEN FixOne ELSE 0
       IN  CleanMetricsFrom(n1, idx + 1,
                            totalLoss + binaryCrossEntropy(sigmoidOutput, CLEAN_XOR[idx].target),
                            correct + Bit(predicted = CLEAN_XOR[idx].target[1]))

computeCleanMetrics(net) == CleanMetricsFrom(net, 1, 0, 0)

\* The state createInitialState builds around a newly constructed engine.
InitialStateOf(net, data, confPenalty) ==
  LET train == computeTrainLoss(net, data, confPenalty)
      clean == computeCleanMetrics(train.net)
  IN  [network |-> clean.net,
       steps |-> << [step |-> 0,
                     state |-> getState(clean.net),
                     loss |-> train.loss,
                     cleanLoss |-> clean.loss,
                     accuracy |-> clean.accuracy,
                     currentInputIdx |-> 0] >>,
       currentStep |-> 0,
       isPlaying |-> FALSE,
       selectedInputIdx |-> 0]

\* A variant of createInitialState that does not pass its seed on.
createInitialState_IgnoresSeed(seed, data, confPenalty) ==
  InitialStateOf(Network(DEFAULT_LAYER_SIZES, OtherInitSeed), data, confPenalty)

\* createInitialState(seed), with the trainingData and confidencePenalty its
\* closure holds.
createInitialState(seed, data, confPenalty) ==
  InitialStateOf(Network(DEFAULT_LAYER_SIZES, seed), data, confPenalty)

\* createInitialState for every seed and closure the model offers, computed once.
InitialStateTable ==
  [seed \in RandomizeSeeds, n \in SampleCounts, nl \in NoiseLevels, sd \in DataSeeds,
   cp \in ConfidencePenalties |->
     createInitialState(seed, TrainingDataTable[n, nl, sd], cp)]
InitialState(seed, params, confPenalty) ==
  InitialStateTable[seed, params.numSamples, params.noiseLevel, params.dataSeed, confPenalty]

\* One epoch: forward, backward, step for every point in dataset order.
RECURSIVE TrainEpoch(_, _, _, _, _)
TrainEpoch(net, data, idx, confPenalty, lr) ==
  IF idx > Len(data) THEN net
  ELSE TrainEpoch(step(backward(forward(net, data[idx].input), data[idx].target, confPenalty), lr),
                  data, idx + 1, confPenalty, lr)

\* The body of the updater trainStep queues: the engine rehydrated from the
\* snapshot at prev.currentStep and trained for one epoch, and the snapshot
\* recorded for it.  fresh is the engine the unseeded constructor returns.
TrainedEpoch(prev, data, confPenalty, lr, fresh) ==
  LET net0  == setState(fresh, prev.steps[prev.currentStep + 1].state)
      net   == TrainEpoch(net0, data, 1, confPenalty, lr)
      newState == getState(net)
      train == computeTrainLoss(net, data, confPenalty)
      clean == computeCleanMetrics(train.net)
  IN  [network  |-> clean.net,
       snapshot |-> [step |-> prev.currentStep + 1,
                     state |-> newState,
                     loss |-> train.loss,
                     cleanLoss |-> clean.loss,
                     accuracy |-> clean.accuracy,
                     currentInputIdx |-> 0]]

\* Variants of the updater that differ from the code in one point.
TrainStepUpd_KeepsCurrentStep(prev, data, confPenalty, lr, fresh) ==
  LET e == TrainedEpoch(prev, data, confPenalty, lr, fresh)
  IN  [prev EXCEPT !.network = e.network,
                   !.steps = Append(prev.steps, e.snapshot)]
TrainStepUpd_Truncates(prev, data, confPenalty, lr, fresh) ==
  LET e == TrainedEpoch(prev, data, confPenalty, lr, fresh)
  IN  [prev EXCEPT !.network = e.network,
                   !.steps = Append(SubSeq(prev.steps, 1, prev.currentStep + 1), e.snapshot),
                   !.currentStep = prev.currentStep + 1]

\* The updater trainStep queues, applied to prev.
TrainStepUpd(prev, data, confPenalty, lr, fresh) ==
  LET e == TrainedEpoch(prev, data, confPenalty, lr, fresh)
  IN  [prev EXCEPT !.network = e.network,
                   !.steps = Append(prev.steps, e.snapshot),
                   !.currentStep = prev.currentStep + 1]

\* Variants of the goToStep updater that differ from the code in one point.
GoToStepUpd_Clamps(prev, stepArg, fresh) ==
  LET k == Max(0, Min(Len(prev.steps) - 1, stepArg))
  IN  [prev EXCEPT !.network = setState(fresh, prev.steps[k + 1].state),
                   !.currentStep = k]
GoToStepUpd_FromCurrent(prev, stepArg, fresh) ==
  IF stepArg < 0 \/ stepArg >= Len(prev.steps) THEN prev
  ELSE [prev EXCEPT
          !.network = setState(fresh, prev.steps[prev.currentStep + 1].state),
          !.currentStep = stepArg]

\* A variant of the goToStep updater without the range test.
GoToStepUpd_Unchecked(prev, stepArg, fresh) == [prev EXCEPT !.currentStep = stepArg]

\* The updater goToStep(step) queues, applied to prev.
GoToStepUpd(prev, stepArg, fresh) ==
  IF stepArg < 0 \/ stepArg >= Len(prev.steps) THEN prev
  ELSE [prev EXCEPT
          !.network = setState(fresh, prev.steps[stepArg + 1].state),
          !.currentStep = stepArg]

\* ------------------------------------------------------------ the program
VARIABLES
  training,           \* useState<TrainingState>, every queued update applied
  learningRate,       \* useState(0.5)
  noiseLevel,         \* useState(0)
  numSamples,         \* useState(100)
  dataSeed,           \* useState(42)
  confidencePenalty,  \* useState(0)
  prevDataParams,     \* useRef({numSamples, noiseLevel, dataSeed})
  view,               \* what the last committed render's closures hold
  timer,              \* the auto-step timeout is pending
  pending,            \* handler calls since the last render
  changes,            \* setting changes so far
  op,                 \* the last operation: its name and argument
  run,                \* trainSteps in a row since a fresh state, else -1
  gen,                \* a seeded generator and the datasets drawn from it
  eng                 \* engines used directly: the heap of their arrays

\* The state of the mounted application.
appVars == <<training, learningRate, noiseLevel, numSamples, dataSeed, confidencePenalty,
             prevDataParams, view, timer, pending, changes, op, run>>

vars == <<appVars, gen, eng>>

\* gen or eng while the specification at hand does not use it.
Idle == [phase |-> "idle"]

controls == <<learningRate, noiseLevel, numSamples, dataSeed, confidencePenalty>>

DataParams(n, nl, sd) == [numSamples |-> n, noiseLevel |-> nl, dataSeed |-> sd]

\* The values a render hands to the handlers it creates.
ViewOf(t, lr, n, nl, sd, cp) ==
  [currentStep |-> t.currentStep,
   stepsLength |-> Len(t.steps),
   isPlaying |-> t.isPlaying,
   learningRate |-> lr,
   params |-> DataParams(n, nl, sd),
   confidencePenalty |-> cp]

Op(name, arg) == [name |-> name, arg |-> arg, twice |-> FALSE]

AppInit ==
  /\ learningRate = Half
  /\ noiseLevel = 0
  /\ numSamples = 1
  /\ dataSeed = DefaultDataSeed
  /\ confidencePenalty = 0
  /\ training = InitialState(ResetSeed, DataParams(1, 0, DefaultDataSeed), 0)
  /\ prevDataParams = DataParams(1, 0, DefaultDataSeed)
  /\ view = ViewOf(training, Half, 1, 0, DefaultDataSeed, 0)
  /\ timer = FALSE
  /\ pending = 0
  /\ changes = 0
  /\ op = Op("init", 0)
  /\ run = 0

Init == AppInit /\ gen = Idle /\ eng = Idle

\* A handler of the committed render runs: one more update is queued.
Queued == /\ pending < MaxPending
          /\ pending' = pending + 1
          /\ UNCHANGED <<prevDataParams, view, gen, eng>>

\* A handler that queues an update of training.
Handler == Queued /\ UNCHANGED <<controls, changes>>

\* A handler that sets one of the controls.
Control == /\ Queued
           /\ changes < MaxControlChanges
           /\ changes' = changes + 1
           /\ op' = Op("control", 0)
           /\ UNCHANGED <<training, timer, run>>

\* trainStep(): setTraining(prev => ...) with the closure's dataset,
\* confidence penalty and learning rate.
trainStep ==
  /\ Len(training.steps) < MaxSteps
  /\ \E fresh \in FreshNetworks :
       training' = TrainStepUpd(training, trainingData(view.params),
                                view.confidencePenalty, view.learningRate, fresh)
  /\ op' = Op("trainStep", 0)
  /\ run' = IF run >= 0 THEN run + 1 ELSE run

\* goToStep(step): setTraining(prev => ...).
goToStep(stepArg) ==
  /\ \E fresh \in FreshNetworks : training' = GoToStepUpd(training, stepArg, fresh)
  /\ op' = [name |-> "goToStep", arg |-> stepArg,
            twice |-> op.name = "goToStep" /\ op.arg = stepArg]
  /\ run' = -1

\* onNext, as App builds it from the rendered training.
onNext ==
  IF view.currentStep = view.stepsLength - 1
  THEN trainStep
  ELSE goToStep(view.currentStep + 1)

NextClick == Handler /\ onNext /\ UNCHANGED timer

\* The auto-step timeout fires and calls the onNext it was created with.
TimerFire ==
  /\ timer
  /\ Handler
  /\ onNext
  /\ timer' = FALSE

\* The Prev button is disabled when the rendered step is 0.
PrevClick ==
  /\ view.currentStep # 0
  /\ Handler
  /\ goToStep(view.currentStep - 1)
  /\ UNCHANGED timer

\* The step slider (0..maxSteps-1) and a click in the graphs (clamped to
\* 0..steps.length-1) call goToStep with a step of the rendered history.
StepPick ==
  /\ Handler
  /\ \E stepArg \in 0..(view.stepsLength - 1) : goToStep(stepArg)
  /\ UNCHANGED timer

reset ==
  /\ Handler
  /\ training' = InitialState(ResetSeed, view.params, view.confidencePenalty)
  /\ op' = Op("reset", ResetSeed)
  /\ run' = 0
  /\ UNCHANGED timer

randomize ==
  /\ Handler
  /\ \E randomSeed \in RandomizeSeeds :
       /\ training' = InitialState(randomSeed, view.params, view.confidencePenalty)
       /\ op' = Op("randomize", randomSeed)
  /\ run' = 0
  /\ UNCHANGED timer

\* onTogglePlay: setIsPlaying(!training.isPlaying) with the rendered value.
TogglePlay ==
  /\ Handler
  /\ training' = [training EXCEPT !.isPlaying = ~view.isPlaying]
  /\ op' = Op("setIsPlaying", 0)
  /\ run' = -1
  /\ UNCHANGED timer

setSelectedInput ==
  /\ Queued
  /\ changes < MaxControlChanges
  /\ changes' = changes + 1
  /\ UNCHANGED controls
  /\ \E idx \in SelectableInputs :
       training' = [training EXCEPT !.selectedInputIdx = idx]
  /\ op' = Op("setSelectedInput", 0)
  /\ run' = -1
  /\ UNCHANGED timer

setLearningRate ==
  /\ Control
  /\ \E lr \in LearningRates \ {learningRate} : learningRate' = lr
  /\ UNCHANGED <<noiseLevel, numSamples, dataSeed, confidencePenalty>>

setNoiseLevel ==
  /\ Control
  /\ \E nl \in NoiseLevels \ {noiseLevel} : noiseLevel' = nl
  /\ UNCHANGED <<learningRate, numSamples, dataSeed, confidencePenalty>>

setNumSamples ==
  /\ Control
  /\ \E n \in SampleCounts \ {numSamples} : numSamples' = n
  /\ UNCHANGED <<learningRate, noiseLevel, dataSeed, confidencePenalty>>

\* regenerateData: setDataSeed(Date.now() % 100000).
regenerateData ==
  /\ Control
  /\ \E newSeed \in DataSeeds : dataSeed' = newSeed
  /\ UNCHANGED <<learningRate, noiseLevel, numSamples, confidencePenalty>>

setConfidencePenalty ==
  /\ Control
  /\ \E cp \in ConfidencePenalties \ {confidencePenalty} : confidencePenalty' = cp
  /\ UNCHANGED <<learningRate, noiseLevel, numSamples, dataSeed>>

\* The forward calls of one render on training.network, in order: liveAccuracy,
\* liveLoss, NetworkVisualization, PredictionsPanel.
RECURSIVE ForwardAll(_, _, _)
ForwardAll(net, points, idx) ==
  IF idx > Len(points) THEN net
  ELSE ForwardAll(forward(net, points[idx].input), points, idx + 1)

RenderQueries(net, data, selectedInputIdx) ==
  LET a == ForwardAll(net, CLEAN_XOR, 1)
      b == ForwardAll(a, data, 1)
      c == forward(b, CLEAN_XOR[selectedInputIdx + 1].input)
  IN  ForwardAll(c, CLEAN_XOR, 1)

\* A variant of the auto-reset test that looks at the data seed only.
DataParamsChanged_SeedOnly(prev, params) == prev.dataSeed # params.dataSeed

\* The auto-reset effect's test: some data parameter differs from the ref's.
DataParamsChanged(prev, params) ==
  ~(prev.numSamples = params.numSamples /\ prev.noiseLevel = params.noiseLevel
    /\ prev.dataSeed = params.dataSeed)

\* A variant of the auto-step effect that sets its timeout whether or not
\* play is on.
AutoStepArmed_IgnoresPlaying(isPlaying) == TRUE

\* The auto-step effect of a commit: if (!isPlaying) return; otherwise the
\* timeout is set (the cleanup has cleared the one of the commit before).
AutoStepArmed(isPlaying) == isPlaying

\* React renders the queued state and commits it; then the effects run: the
\* auto-step effect re-creates its timeout, the auto-reset effect compares the
\* data parameters with prevDataParams and, on a change, queues the state
\* createInitialState(123) builds with the regenerated dataset.  The argument
\* recorded for a render is the number of snapshots its auto-reset discards.
Render ==
  /\ pending > 0
  /\ LET params == DataParams(numSamples, noiseLevel, dataSeed)
         data == trainingData(params)
         changed == DataParamsChanged(prevDataParams, params)
     IN  /\ view' = ViewOf(training, learningRate, numSamples, noiseLevel, dataSeed,
                           confidencePenalty)
         /\ timer' = AutoStepArmed(training.isPlaying)
         /\ prevDataParams' = IF changed THEN params ELSE prevDataParams
         /\ training' =
              IF changed
              THEN InitialState(ResetSeed, params, confidencePenalty)
              ELSE [training EXCEPT
                      !.network = RenderQueries(training.network, data,
                                                training.selectedInputIdx)]
         /\ pending' = IF changed THEN 1 ELSE 0
         /\ op' = Op("render", IF changed THEN Len(training.steps) ELSE 0)
         /\ run' = IF changed THEN 0 ELSE run
  /\ UNCHANGED <<controls, changes, gen, eng>>

Next ==
  \/ NextClick
  \/ TimerFire
  \/ PrevClick
  \/ StepPick
  \/ reset
  \/ randomize
  \/ TogglePlay
  \/ setSelectedInput
  \/ setLearningRate
  \/ setNoiseLevel
  \/ setNumSamples
  \/ regenerateData
  \/ setConfidencePenalty
  \/ Render

Spec == Init /\ [][Next]_vars

\* The expiry of the auto-step timeout, as the timeout and the update queue
\* see it: a step of the program is this step exactly when it is TimerFire.
TimerExpires ==
  /\ timer
  /\ pending < MaxPending
  /\ (view.currentStep = view.stepsLength - 1) => Len(training.steps) < MaxSteps
  /\ timer' = FALSE
  /\ pending' = pending + 1

\* A render and commit, as the update queue sees it: a step of the program is
\* this step exactly when it is Render.
ReactCommits ==
  /\ pending > 0
  /\ pending' \in {0, 1}
  /\ op' \in {Op("render", n) : n \in 0..MaxSteps}

\* The application with its scheduling: a timeout that is set expires unless
\* it is cleared, and React renders the updates that are queued.
SpecAutoPlay ==
  /\ Init
  /\ [][Next]_vars
  /\ WF_<<timer, pending>>(TimerExpires)
  /\ WF_<<pending, op>>(ReactCommits)

\* ------------------------------------------------------ the generator alone
\* The seeded generator and generateNoisyData used directly, outside the
\* mounted application: gen follows one seed.  Its two copies of the
\* generator (the hook's and the Network constructor's) are seeded and then
\* called one call at a time; after that generateNoisyData and new Network
\* are called with the same seed and every call is recorded.

\* Seeds of the range the application draws from (Date.now() % 100000); for
\* them seed * 1103515245 stays below 2^53, so the double product the code
\* computes is the exact integer SeedLane computes.
GenSeeds == {0, 42, 123, 99999}
GenSampleCounts == 1..(MaxGenDraws \div 3)
GenNoiseLevels == {0, NoiseDen \div 2, NoiseDen}

\* Both copies right after "let m_w = ...; let m_z = ...; if (m === 0) m = 1".
GenSeeded(seed) ==
  [phase |-> "gen", seed |-> seed,
   lanes |-> SeedLanes(seed), ctorLanes |-> CtorSeedLanes(seed),
   n |-> 0, result |-> <<0, 0>>, ctorResult |-> <<0, 0>>,
   drawn |-> <<>>, calls |-> <<>>, leftover |-> NoGenerator]

GenInit == AppInit /\ eng = Idle /\ gen \in {GenSeeded(seed) : seed \in GenSeeds}

\* One call of random() on each copy: the first WarmUp calls are the
\* warm-up loop's, the later ones the caller's.
GenDraw ==
  /\ gen.calls = <<>>
  /\ gen.n < WarmUp + MaxGenDraws
  /\ LET h == random(gen.lanes)
         c == CtorRandom(gen.ctorLanes)
     IN  gen' = [gen EXCEPT !.lanes = h.gen, !.ctorLanes = c.gen, !.n = @ + 1,
                            !.result = h.result, !.ctorResult = c.result,
                            !.drawn = IF gen.n >= WarmUp THEN Append(@, h.result) ELSE @]
  /\ UNCHANGED <<appVars, eng>>

\* generateNoisyData(numSamples, noiseLevel, seed): its generator is made by
\* its own call of seededRandom, and left behind after 3 draws per point.
GenData ==
  /\ gen.n = WarmUp + MaxGenDraws
  /\ Len(gen.calls) < MaxGenCalls
  /\ \E k \in GenSampleCounts, nl \in GenNoiseLevels :
       LET rand == SeededRandomCall(gen.seed, gen.leftover)
       IN  gen' = [gen EXCEPT
                     !.calls = Append(@, [kind |-> "data", numSamples |-> k, noiseLevel |-> nl,
                                          result |-> NoisyDataFrom(k, nl, rand)]),
                     !.leftover = Discard(rand, 3 * k)]
  /\ UNCHANGED <<appVars, eng>>

\* new Network(DEFAULT_LAYER_SIZES, seed) with the same seed: the constructor
\* seeds and draws from lanes of its own.
GenNetwork ==
  /\ gen.n = WarmUp + MaxGenDraws
  /\ Len(gen.calls) < MaxGenCalls
  /\ LET g == CtorSeededCall(gen.seed, gen.leftover)
         d == 2 * NumWeights(DEFAULT_LAYER_SIZES)
     IN  gen' = [gen EXCEPT
                   !.calls = Append(@, [kind |-> "network", numSamples |-> 0, noiseLevel |-> 0,
                                        result |-> NetworkFrom(DEFAULT_LAYER_SIZES, CtorDraws(g, d))]),
                   !.leftover = CtorCalls(g, d)[d].gen]
  /\ UNCHANGED <<appVars, eng>>

GenNext == GenDraw \/ GenData \/ GenNetwork

SpecGenerator == GenInit /\ [][GenNext]_vars

\* --------------------------------------------------------- one engine alone
\* A Network used directly, outside the mounted application: constructed
\* with a seed or without one, then called through forward, backward and
\* step with arguments of any length; a second engine may be constructed
\* with the same seed.  The run ends at the first call that throws.

\* The seeds the engine's tests compare: 123 with 456 by the first weight,
\* 100 with 200 by the output for [0.5, 0.5].
WeightTestSeeds == <<123, 456>>
PredictionTestSeeds == <<100, 200>>
\* The seeds of the run: the application's, the tests', and 7, a seed
\* randomize can draw, for which no hidden unit is active on the input [1, 0].
EngSeeds ==
  {ResetSeed, OtherInitSeed, 7}
    \cup {WeightTestSeeds[1], WeightTestSeeds[2]}
    \cup {PredictionTestSeeds[1], PredictionTestSeeds[2]}
\* Math.random may return any number of [0, 1), 0 included.
ZeroFirstDraws ==
  LET d == CHOOSE d \in MathRandomDraws : TRUE
  IN  [k \in 1..Len(d) |-> IF k = 1 THEN <<0, 0>> ELSE d[k]]
EngRandomDraws == MathRandomDraws \cup {ZeroFirstDraws}
\* Arguments of forward (the input layer has 2 nodes) and of backward (the
\* output layer has 1 node); a target longer than the output is not offered.
EngInputs == {<<FixOne>>, <<0, FixOne>>, <<FixOne, 0, FixOne>>}
EngTargets == {<<>>, <<0>>, <<FixOne>>}

\* No weight is Infinity or -Infinity.
Finite(net) ==
  \A i \in 1..Len(net.weights) : \A j \in 1..Len(net.weights[i]) :
    \A k \in 1..Len(net.weights[i][j]) :
      net.weights[i][j][k] < Infinity /\ net.weights[i][j][k] > 0 - Infinity

\* The gradients have the shape of the parameters.
GradsMirror(net) ==
  /\ Len(net.weightGrads) = Len(net.weights)
  /\ Len(net.biasGrads) = Len(net.biases)
  /\ \A i \in 1..Len(net.weights) :
       /\ Len(net.weightGrads[i]) = Len(net.weights[i])
       /\ Len(net.biasGrads[i]) = Len(net.biases[i])
       /\ \A j \in 1..Len(net.weights[i]) :
            Len(net.weightGrads[i][j]) = Len(net.weights[i][j])

\* new Network(DEFAULT_LAYER_SIZES, seed), or new Network(DEFAULT_LAYER_SIZES)
\* where seed is -1; draws are the results random() returned, left the
\* generator the construction leaves behind.
EngConstructed(seed, draws, left) ==
  LET c == NetworkAt(<<>>, NetworkFrom(DEFAULT_LAYER_SIZES, draws))
  IN  [phase |-> "engine", heap |-> c.heap, net |-> c.net, seed |-> seed, draws |-> draws,
       first |-> NetworkVal(c.heap, c.net), before |-> NetworkVal(c.heap, c.net),
       leftover |-> left, twins |-> <<>>, others |-> <<>>,
       threw |-> "none", op |-> "new", arg |-> <<>>, ops |-> 0]

EngInit ==
  /\ AppInit
  /\ gen = Idle
  /\ LET d == 2 * NumWeights(DEFAULT_LAYER_SIZES)
     IN  eng \in {EngConstructed(seed, CtorDraws(CtorSeededCall(seed, NoGenerator), d),
                                 CtorCalls(CtorSeededCall(seed, NoGenerator), d)[d].gen) :
                     seed \in EngSeeds}
             \cup {EngConstructed(0 - 1, draws, NoGenerator) : draws \in EngRandomDraws}

\* The engine can take another call.
EngReady ==
  /\ eng.phase = "engine"
  /\ eng.threw = "none"
  /\ eng.ops < MaxEngineOps
  /\ Finite(eng.first)

\* The state after a method call that returned r.
EngAfter(name, arg, r) ==
  [eng EXCEPT !.heap = r.heap, !.net = r.net, !.threw = r.threw,
              !.before = NetworkVal(eng.heap, eng.net),
              !.op = name, !.arg = arg, !.ops = @ + 1]

\* net.forward(x), x an array of the caller's.
EngForward ==
  /\ EngReady
  /\ \E x \in EngInputs :
       eng' = EngAfter("forward", x, forwardAt(Append(eng.heap, x), eng.net, Len(eng.heap) + 1))
  /\ UNCHANGED <<appVars, gen>>

\* net.backward(x, target, confidencePenalty) after a forward call that returned.
EngBackward ==
  /\ EngReady
  /\ LET v == NetworkVal(eng.heap, eng.net)
     IN  Len(v.activations) = Len(v.weights) + 1
  /\ \E target \in EngTargets, cp \in ConfidencePenalties :
       eng' = EngAfter("backward", target, backwardAt(eng.heap, eng.net, target, cp))
  /\ UNCHANGED <<appVars, gen>>

\* net.step(0.5): before any backward call, or on gradients of the
\* parameters' shape (other gradients give NaN parameters, not followed).
EngStep ==
  /\ EngReady
  /\ LET v == NetworkVal(eng.heap, eng.net)
     IN  StepThrows(v) \/ GradsMirror(v)
  /\ eng' = EngAfter("step", <<Half>>, stepAt(eng.heap, eng.net, Half))
  /\ UNCHANGED <<appVars, gen>>

\* new Network(DEFAULT_LAYER_SIZES, seed) once more with the same seed.
EngTwin ==
  /\ EngReady
  /\ eng.seed >= 0
  /\ eng.twins = <<>>
  /\ LET g == CtorSeededCall(eng.seed, eng.leftover)
         d == 2 * NumWeights(DEFAULT_LAYER_SIZES)
     IN  eng' = [eng EXCEPT
                   !.twins = Append(@, NetworkFrom(DEFAULT_LAYER_SIZES, CtorDraws(g, d))),
                   !.leftover = CtorCalls(g, d)[d].gen,
                   !.before = NetworkVal(eng.heap, eng.net),
                   !.op = "twin", !.arg = <<>>, !.ops = @ + 1]
  /\ UNCHANGED <<appVars, gen>>

\* new Network(DEFAULT_LAYER_SIZES, other) with a seed other than the first
\* engine's: the engine and the two draws that made its first weight.
EngOtherSeed ==
  /\ EngReady
  /\ eng.seed >= 0
  /\ eng.others = <<>>
  /\ eng.ops = 0
  /\ \E other \in EngSeeds \ {eng.seed} :
       LET g == CtorSeededCall(other, eng.leftover)
           d == 2 * NumWeights(DEFAULT_LAYER_SIZES)
           draws == CtorDraws(g, d)
       IN  eng' = [eng EXCEPT
                     !.others = Append(@, [seed |-> other,
                                           firstDraws |-> <<draws[1], draws[2]>>,
                                           net |-> NetworkFrom(DEFAULT_LAYER_SIZES, draws)]),
                     !.leftover = CtorCalls(g, d)[d].gen,
                     !.before = NetworkVal(eng.heap, eng.net),
                     !.op = "other", !.arg = <<>>, !.ops = @ + 1]
  /\ UNCHANGED <<appVars, gen>>

EngNext == EngForward \/ EngBackward \/ EngStep \/ EngTwin \/ EngOtherSeed

SpecEngine == EngInit /\ [][EngNext]_vars

\* ------------------------------------------------ an engine and its copy
\* Engine A is constructed and used; its state is exported once with
\* getState; a new engine B takes the exported state object with setState;
\* then either engine is used further.  A, B and the exported object are
\* objects of one heap.  The run ends at the first call that throws.

SnapInputs == {<<0, FixOne>>, <<FixOne, FixOne>>}
SnapTargets == {<<0>>, <<FixOne>>}
Engines == {"A", "B"}

SnapInit ==
  /\ AppInit
  /\ gen = Idle
  /\ LET c == NetworkAt(<<>>, Network(DEFAULT_LAYER_SIZES, ResetSeed))
     IN  eng = [phase |-> "snapshot", heap |-> c.heap, A |-> c.net, B |-> <<>>,
                exported |-> <<>>, atExport |-> <<>>,
                threw |-> "none", op |-> "new", who |-> "A", ops |-> 0]

\* The engine object called who, if it exists.
Has(who) == who = "A" \/ eng.B # <<>>
EngineOf(who) == IF who = "A" THEN eng.A ELSE eng.B[1]

SnapReady ==
  /\ eng.phase = "snapshot"
  /\ eng.threw = "none"
  /\ eng.ops < MaxSnapshotOps

\* The state after a method call on who that returned r.
SnapAfter(name, who, r) ==
  [eng EXCEPT !.heap = r.heap,
              !.A = IF who = "A" THEN r.net ELSE @,
              !.B = IF who = "B" THEN <<r.net>> ELSE @,
              !.threw = r.threw, !.op = name, !.who = who, !.ops = @ + 1]

SnapForward ==
  /\ SnapReady
  /\ \E who \in Engines, x \in SnapInputs :
       /\ Has(who)
       /\ eng' = SnapAfter("forward", who,
                           forwardAt(Append(eng.heap, x), EngineOf(who), Len(eng.heap) + 1))
  /\ UNCHANGED <<appVars, gen>>

SnapBackward ==
  /\ SnapReady
  /\ \E who \in Engines, target \in SnapTargets :
       /\ Has(who)
       /\ LET v == NetworkVal(eng.heap, EngineOf(who))
          IN  Len(v.activations) = Len(v.weights) + 1
       /\ eng' = SnapAfter("backward", who, backwardAt(eng.heap, EngineOf(who), target, 0))
  /\ UNCHANGED <<appVars, gen>>

SnapStep ==
  /\ SnapReady
  /\ \E who \in Engines :
       /\ Has(who)
       /\ eng' = SnapAfter("step", who, stepAt(eng.heap, EngineOf(who), Half))
  /\ UNCHANGED <<appVars, gen>>

\* const state = A.getState()
SnapExport ==
  /\ SnapReady
  /\ eng.exported = <<>>
  /\ LET r == getStateAt(eng.heap, eng.A)
     IN  eng' = [eng EXCEPT !.heap = r.heap, !.exported = <<r.state>>,
                            !.atExport = <<NetworkVal(eng.heap, eng.A)>>,
                            !.op = "getState", !.who = "A", !.ops = @ + 1]
  /\ UNCHANGED <<appVars, gen>>

\* const B = new Network(A.layerSizes); B.setState(state)
SnapImport ==
  /\ SnapReady
  /\ eng.exported # <<>>
  /\ eng.B = <<>>
  /\ \E fresh \in FreshNetworks :
       LET c == NetworkAt(eng.heap, fresh)
           r == setStateAt(c.heap, c.net, eng.exported[1])
       IN  eng' = [eng EXCEPT !.heap = r.heap, !.B = <<r.net>>,
                              !.op = "setState", !.who = "B", !.ops = @ + 1]
  /\ UNCHANGED <<appVars, gen>>

SnapNext == SnapForward \/ SnapBackward \/ SnapStep \/ SnapExport \/ SnapImport

SpecSnapshot == SnapInit /\ [][SnapNext]_vars

\* ------------------------------------------- one trainStep, call by call
\* The body of the updater trainStep queues, one method call of the engine
\* at a time.  The run starts from a training state the hook can hold: the
\* initial one, the one after an epoch, or that one navigated back to step 0.
EpochStarts(seed, params, confPenalty, lr, fresh) ==
  LET s0 == InitialState(seed, params, confPenalty)
      s1 == TrainStepUpd(s0, trainingData(params), confPenalty, lr, fresh)
  IN  {s0, s1, GoToStepUpd(s1, 0, fresh)}

\* A variant of the loop body without the call of backward.
AfterCall_SkipsBackward(call, idx, len) ==
  CASE call = "forward" -> [pc |-> "step", idx |-> idx]
    [] call = "backward" -> [pc |-> "step", idx |-> idx]
    [] OTHER -> IF idx + 1 > len THEN [pc |-> "done", idx |-> idx + 1]
                ELSE [pc |-> "forward", idx |-> idx + 1]

\* Where control is after a call of the loop body for the point at idx:
\* forward, backward, step, then the next point or the end of the loop.
AfterCall(call, idx, len) ==
  CASE call = "forward" -> [pc |-> "backward", idx |-> idx]
    [] call = "backward" -> [pc |-> "step", idx |-> idx]
    [] OTHER -> IF idx + 1 > len THEN [pc |-> "done", idx |-> idx + 1]
                ELSE [pc |-> "forward", idx |-> idx + 1]

\* const net = new Network(prev.network.layerSizes);
\* net.setState(prev.steps[prev.currentStep].state);
EpochInit ==
  /\ AppInit
  /\ gen = Idle
  /\ \E seed \in RandomizeSeeds, n \in SampleCounts, nl \in NoiseLevels, sd \in DataSeeds,
        cp \in ConfidencePenalties, lr \in LearningRates, fresh \in FreshNetworks :
       \E prev \in EpochStarts(seed, DataParams(n, nl, sd), cp, lr, fresh) :
         LET data == trainingData(DataParams(n, nl, sd))
             net0 == setState(fresh, prev.steps[prev.currentStep + 1].state)
         IN  eng = [phase |-> "epoch", prev |-> prev, fresh |-> fresh,
                    data |-> data, confidencePenalty |-> cp, learningRate |-> lr,
                    start |-> net0, net |-> net0,
                    pc |-> IF Len(data) = 0 THEN "done" ELSE "forward",
                    idx |-> 1, calls |-> <<>>, updates |-> 0, returned |-> <<>>]

\* The state after the call named call, with argument arg, left the engine net.
EpochAfter(call, arg, net) ==
  LET to == AfterCall(call, eng.idx, Len(eng.data))
  IN  [eng EXCEPT !.net = net, !.pc = to.pc, !.idx = to.idx,
                  !.calls = Append(@, [call |-> call, point |-> eng.idx, arg |-> arg]),
                  !.updates = IF call = "step" THEN @ + 1 ELSE @]

\* net.forward(input)
EpochForward ==
  /\ eng.phase = "epoch"
  /\ eng.pc = "forward"
  /\ LET input == eng.data[eng.idx].input
     IN  eng' = EpochAfter("forward", input, forward(eng.net, input))
  /\ UNCHANGED <<appVars, gen>>

\* net.backward(input, target, confidencePenalty)
EpochBackward ==
  /\ eng.phase = "epoch"
  /\ eng.pc = "backward"
  /\ LET target == eng.data[eng.idx].target
     IN  eng' = EpochAfter("backward", target,
                           backward(eng.net, target, eng.confidencePenalty))
  /\ UNCHANGED <<appVars, gen>>

\* net.step(learningRate)
EpochStep ==
  /\ eng.phase = "epoch"
  /\ eng.pc = "step"
  /\ eng' = EpochAfter("step", <<eng.learningRate>>, step(eng.net, eng.learningRate))
  /\ UNCHANGED <<appVars, gen>>

\* const newState = net.getState(); the metrics; the state returned.
EpochReturn ==
  /\ eng.phase = "epoch"
  /\ eng.pc = "done"
  /\ LET train == computeTrainLoss(eng.net, eng.data, eng.confidencePenalty)
         clean == computeCleanMetrics(train.net)
         snapshot == [step |-> eng.prev.currentStep + 1,
                      state |-> getState(eng.net),
                      loss |-> train.loss,
                      cleanLoss |-> clean.loss,
                      accuracy |-> clean.accuracy,
                      currentInputIdx |-> 0]
     IN  eng' = [eng EXCEPT
                   !.net = clean.net, !.pc = "returned",
                   !.returned = <<[eng.prev EXCEPT
                                     !.network = clean.net,
                                     !.steps = Append(eng.prev.steps, snapshot),
                                     !.currentStep = eng.prev.currentStep + 1]>>]
  /\ UNCHANGED <<appVars, gen>>

EpochNext == EpochForward \/ EpochBackward \/ EpochStep \/ EpochReturn

SpecEpoch == EpochInit /\ [][EpochNext]_vars

\* ------------------------------------------------------------ properties
\* steps of a is an initial part of steps of b, snapshot for snapshot.
IsPrefix(a, b) ==
  /\ Len(a) <= Len(b)
  /\ \A i \in 1..Len(a) : a[i] = b[i]

\* The step argument of a goToStep call is an index of the history t holds.
ValidStep(stepArg, t) == 0 <= stepArg /\ stepArg < Len(t.steps)

\* C1: in every reachable state the snapshot at position i of training.steps
\* has step = i (positions counted from 0): no duplicate, no skipped number.
C1_StepsIndexedByStep ==
  \A i \in 1..Len(training.steps) : training.steps[i].step = i - 1

\* C2: after n consecutive trainStep calls from the initial or a freshly
\* reset state (run counts them, -1 once another operation came between),
\* the history has n + 1 snapshots with steps 0..n and currentStep = n.
C2_ConsecutiveTrainSteps ==
  run >= 0 =>
    /\ Len(training.steps) = run + 1
    /\ \A i \in 1..Len(training.steps) : training.steps[i].step = i - 1
    /\ training.currentStep = run
C2_ThreeSnapshotsAfterTwoEpochs ==
  /\ op.name = "trainStep"
  /\ run = 2
  /\ Len(training.steps) = 3

\* C3: whenever the trainStep update is applied it appends exactly one
\* snapshot, whose step is the step of the previously last snapshot plus 1,
\* and currentStep becomes the index of the appended snapshot.
C3_AdvanceAppendsSuccessor ==
  [][op'.name = "trainStep" =>
       /\ Len(training'.steps) = Len(training.steps) + 1
       /\ IsPrefix(training.steps, training'.steps)
       /\ training'.steps[Len(training'.steps)].step
            = training.steps[Len(training.steps)].step + 1
       /\ training'.currentStep = Len(training'.steps) - 1]_vars

\* C4: every trainStep update is applied to a state at the frontier
\* (currentStep = steps.length - 1), also when the handler that queued it was
\* created by a render older than a queued goToStep.
C4_AdvanceOnlyAtFrontier ==
  [][op'.name = "trainStep" =>
       training.currentStep = Len(training.steps) - 1]_vars

\* C5: goToStep(step) with 0 <= step < steps.length sets currentStep to step,
\* makes training.network an engine whose exported state is steps[step].state
\* (nothing was computed on it), and leaves steps, isPlaying and
\* selectedInputIdx as they were.
C5_GoToStepRehydrates ==
  [][(op'.name = "goToStep" /\ ValidStep(op'.arg, training)) =>
       /\ training'.currentStep = op'.arg
       /\ getState(training'.network) = training.steps[op'.arg + 1].state
       /\ training'.steps = training.steps
       /\ training'.isPlaying = training.isPlaying
       /\ training'.selectedInputIdx = training.selectedInputIdx]_vars
C5_WentBackWhilePlaying ==
  /\ op.name = "goToStep"
  /\ op.arg = 0
  /\ training.currentStep = 0
  /\ Len(training.steps) >= 2
  /\ training.isPlaying
  /\ getState(training.network) = training.steps[1].state
  /\ training.steps[1].state.weights # training.steps[2].state.weights

\* C6: goToStep(step) with step < 0 or step >= steps.length leaves the whole
\* training state as it was: nothing is clamped.  The first part is the
\* updater applied to every reachable state with the steps -1, length and
\* length + 1; the second is every such call the handlers make.
C6_OutOfRangeRejected ==
  /\ [](\A fresh \in FreshNetworks :
          \A stepArg \in {-1, Len(training.steps), Len(training.steps) + 1} :
            GoToStepUpd(training, stepArg, fresh) = training)
  /\ [][(op'.name = "goToStep" /\ ~ValidStep(op'.arg, training)) =>
          training' = training]_vars
C6_StaleStepBeyondHistory ==
  /\ op.name = "goToStep"
  /\ op.arg >= Len(training.steps)
  /\ op.arg > 0
  /\ training.currentStep = 0

\* C7: goToStep(k) directly after goToStep(k), k valid, leaves currentStep,
\* steps and the exported state of the engine as the first call left them.
C7_GoToStepIdempotent ==
  [][(op'.name = "goToStep" /\ op'.twice /\ ValidStep(op'.arg, training)) =>
       /\ op.name = "goToStep" /\ op.arg = op'.arg
       /\ training'.currentStep = training.currentStep
       /\ training'.steps = training.steps
       /\ getState(training'.network) = getState(training.network)]_vars
C7_SameStepTwice ==
  /\ op.name = "goToStep"
  /\ op.twice
  /\ ValidStep(op.arg, training)
  /\ training.currentStep = op.arg
  /\ op.arg < Len(training.steps) - 1

\* C8: a snapshot once in training.steps keeps its values and its position:
\* every step other than reset, randomize and the reset a data change causes
\* leaves the old history as an initial part of the new one.
C8_HistoryAppendOnly ==
  [][(/\ op'.name \notin {"reset", "randomize"}
      /\ ~(op'.name = "render" /\ op'.arg # 0)) =>
       IsPrefix(training.steps, training'.steps)]_vars
C8_AdvancedAfterNavigation ==
  /\ op.name = "trainStep"
  /\ run = -1
  /\ Len(training.steps) = 3

\* C9: reset() yields exactly one snapshot, step 0, currentStep 0, with the
\* parameters of an engine built from seed 123; the state depends on nothing
\* but the dataset and the confidence penalty of the render, so a second
\* reset yields the same state.
C9_ResetFromFixedSeed ==
  op.name = "reset" =>
    /\ Len(training.steps) = 1
    /\ training.steps[1].step = 0
    /\ training.currentStep = 0
    /\ training.steps[1].state.weights = Network(DEFAULT_LAYER_SIZES, ResetSeed).weights
    /\ training.steps[1].state.biases = Network(DEFAULT_LAYER_SIZES, ResetSeed).biases
    /\ training = InitialStateOf(Network(DEFAULT_LAYER_SIZES, ResetSeed),
                                 trainingData(view.params), view.confidencePenalty)
C9_ResetDiscardedHistory ==
  /\ op.name = "reset"
  /\ view.stepsLength >= 2
  /\ Len(training.steps) = 1

\* C10: when a render sees numSamples, noiseLevel or dataSeed differ from the
\* last render's, the state it settles in has one snapshot, step 0, built with
\* seed 123 and evaluated against the regenerated dataset, and currentStep 0:
\* no snapshot of the previous dataset is left.
C10_DataChangeResets ==
  [][view'.params # view.params =>
       /\ Len(training'.steps) = 1
       /\ training'.steps[1].step = 0
       /\ training'.currentStep = 0
       /\ training' = InitialStateOf(Network(DEFAULT_LAYER_SIZES, ResetSeed),
                                     trainingData(view'.params),
                                     view'.confidencePenalty)
       /\ prevDataParams' = view'.params]_vars
C10_ResetByDataChange ==
  /\ op.name = "render"
  /\ op.arg >= 2
  /\ Len(training.steps) = 1
  /\ view.params # DataParams(1, 0, DefaultDataSeed)

\* A 32-bit word <<hi, lo>> is not 0.
NonZero(m) == m # <<0, 0>>

\* C16: both lanes of the generator, in the hook's copy and in the
\* constructor's, are non-zero right after seeding and after every call of
\* random(), the warm-up calls included.
C16_LanesNeverZero ==
  gen.phase = "gen" =>
    /\ NonZero(gen.lanes.m_w) /\ NonZero(gen.lanes.m_z)
    /\ NonZero(gen.ctorLanes.m_w) /\ NonZero(gen.ctorLanes.m_z)

\* The warm-up is over and the caller has drawn: the lanes are the ones
\* seededRandom hands out, advanced by the caller's draws.
C16_DrawnAfterWarmUp ==
  /\ gen.phase = "gen"
  /\ gen.n = WarmUp + MaxGenDraws
  /\ gen.lanes = Discard(seededRandom(gen.seed), MaxGenDraws)
  /\ NonZero(gen.lanes.m_w) /\ NonZero(gen.lanes.m_z)

\* An unsigned 32-bit word: both halves within 0 .. 2^16 - 1.
IsUint32(u) == u[1] \in 0..(Two16 - 1) /\ u[2] \in 0..(Two16 - 1)

\* C17: the result of every call of random(), in either copy, is an unsigned
\* 32-bit word, so that result / 2^32 lies in [0, 1).
C17_ResultIsUint32 ==
  (gen.phase = "gen" /\ gen.n > 0) =>
    /\ IsUint32(gen.result) /\ IsUint32(gen.ctorResult)
    /\ ToFix(gen.result) \in 0..(FixOne - 1)
    /\ ToFix(gen.ctorResult) \in 0..(FixOne - 1)

\* A call whose sum (m_z << 16) + (m_w & 65535) was negative before ">>> 0".
C17_NegativeSumDrawn ==
  /\ gen.phase = "gen" /\ gen.n > 0
  /\ Shl16Add(gen.lanes.m_z, gen.lanes.m_w) < 0
  /\ gen.result[1] >= Two16 \div 2

\* The XOR of two bits.
Xor(a, b) == (a + b) % 2

\* C19: generateNoisyData(numSamples, noiseLevel, seed) returns exactly
\* numSamples points; point i is made of the generator's draws 3i-2, 3i-1 and
\* 3i in that order: input = [x1, x2], trueTarget = XOR(x1 >= 0.5, x2 >= 0.5),
\* isNoisy iff the third draw is below noiseLevel, target = 1 - trueTarget
\* when noisy and trueTarget otherwise; noiseLevel 0 flips no label and
\* noiseLevel 1 flips every label.
C19_DataFollowsDraws ==
  gen.phase = "gen" =>
    \A k \in GenSampleCounts, nl \in GenNoiseLevels :
      3 * k <= Len(gen.drawn) =>
        LET data == generateNoisyData(k, nl, gen.seed)
        IN  /\ Len(data) = k
            /\ \A i \in 1..k :
                 LET x1 == gen.drawn[3 * i - 2]
                     x2 == gen.drawn[3 * i - 1]
                     u  == gen.drawn[3 * i]
                     t  == Xor(Bit(2 * x1[1] >= Two16), Bit(2 * x2[1] >= Two16))
                 IN  /\ data[i].input = <<ToFix(x1), ToFix(x2)>>
                     /\ data[i].trueTarget = <<t * FixOne>>
                     /\ data[i].isNoisy = BelowNoise(u, nl)
                     /\ nl = 0 => ~data[i].isNoisy
                     /\ nl = NoiseDen => data[i].isNoisy
                     /\ data[i].target = <<(IF data[i].isNoisy THEN 1 - t ELSE t) * FixOne>>

\* Every draw of the longest dataset has been followed one call at a time,
\* and at the middle noise level some label is flipped and some is not.
C19_FlippedAndKept ==
  /\ gen.phase = "gen"
  /\ Len(gen.drawn) = MaxGenDraws
  /\ LET data == generateNoisyData(MaxGenDraws \div 3, NoiseDen \div 2, gen.seed)
     IN  /\ \E i \in DOMAIN data : data[i].isNoisy /\ data[i].target # data[i].trueTarget
         /\ \E i \in DOMAIN data : ~data[i].isNoisy /\ data[i].target = data[i].trueTarget

\* C20: two calls of generateNoisyData with the same numSamples, noiseLevel
\* and seed return the same dataset, whatever calls were made before or
\* between them: other datasets, or an engine constructed with the same seed.
C20_DataDeterministic ==
  gen.phase = "gen" =>
    \A i \in DOMAIN gen.calls :
      gen.calls[i].kind = "data" =>
        /\ gen.calls[i].result
             = generateNoisyData(gen.calls[i].numSamples, gen.calls[i].noiseLevel, gen.seed)
        /\ \A j \in DOMAIN gen.calls :
             (/\ gen.calls[j].kind = "data"
              /\ gen.calls[j].numSamples = gen.calls[i].numSamples
              /\ gen.calls[j].noiseLevel = gen.calls[i].noiseLevel)
               => gen.calls[j].result = gen.calls[i].result

\* The same dataset asked for twice with an engine constructed in between.
C20_SameCallAroundNetwork ==
  /\ gen.phase = "gen"
  /\ Len(gen.calls) = 3
  /\ gen.calls[1].kind = "data"
  /\ gen.calls[2].kind = "network"
  /\ gen.calls[3] = gen.calls[1]

\* C12: an engine constructed with the same layer sizes and the same seed as
\* an earlier one has the weights and biases the earlier one had when it was
\* constructed, and the same forward output for every input, whatever the
\* earlier one has been used for since.
C12_SameSeedSameEngine ==
  eng.phase = "engine" =>
    \A t \in DOMAIN eng.twins :
      /\ eng.twins[t].weights = eng.first.weights
      /\ eng.twins[t].biases = eng.first.biases
      /\ \A p \in DOMAIN CLEAN_XOR :
           Output(forward(eng.twins[t], CLEAN_XOR[p].input))
             = Output(forward(eng.first, CLEAN_XOR[p].input))

\* The second engine was constructed after the first one had been trained.
C12_TwinOfTrainedEngine ==
  /\ eng.phase = "engine"
  /\ eng.twins # <<>>
  /\ NetworkVal(eng.heap, eng.net).weights # eng.first.weights
  /\ \E i \in 1..Len(eng.first.weights) : \E j \in 1..Len(eng.first.weights[i]) :
       \E k \in 1..Len(eng.first.weights[i][j]) : eng.first.weights[i][j][k] # 0

\* C13: a forward call whose input length differs from the size of the
\* input layer fails with an error; it never returns an output.
C13_WrongInputLengthFails ==
  (eng.phase = "engine" /\ eng.op = "forward" /\ Len(eng.arg) # eng.net.layerSizes[1])
    => eng.threw # "none"

\* C14: a backward call whose target length differs from the width of the
\* output layer fails, and after a backward call that returned the gradients
\* have the shape of the parameters.
C14_WrongTargetLengthFails ==
  (eng.phase = "engine" /\ eng.op = "backward") =>
    /\ Len(eng.arg) # eng.net.layerSizes[Len(eng.net.layerSizes)] => eng.threw # "none"
    /\ eng.threw = "none" => GradsMirror(NetworkVal(eng.heap, eng.net))

\* C15: a step call on an engine that has computed no gradients (no backward
\* call yet) returns without failure and leaves weights and biases as they
\* were.
C15_StepBeforeBackwardIsNoOp ==
  (eng.phase = "engine" /\ eng.op = "step" /\ eng.before.weightGrads = <<>>) =>
    /\ eng.threw = "none"
    /\ NetworkVal(eng.heap, eng.net).weights = eng.before.weights
    /\ NetworkVal(eng.heap, eng.net).biases = eng.before.biases

\* C18: the first draw u1 of every Box-Muller pair reaches Math.log as a
\* number above 0.
C18_LogArgAboveZero ==
  eng.phase = "engine" =>
    \A idx \in 1..NumWeights(eng.net.layerSizes) : LogArg(eng.draws[2 * idx - 1]) # <<0, 0>>

\* The exported state object and the engine that did not take the call are,
\* by value, what they were.
OthersUntouched ==
  /\ eng.exported # <<>> =>
       /\ eng'.exported = eng.exported
       /\ StateVal(eng'.heap, eng'.exported[1]) = StateVal(eng.heap, eng.exported[1])
  /\ (eng'.who = "A" /\ eng.B # <<>>) =>
       /\ eng'.B = eng.B
       /\ NetworkVal(eng'.heap, eng'.B[1]) = NetworkVal(eng.heap, eng.B[1])
  /\ eng'.who = "B" =>
       /\ eng'.A = eng.A
       /\ NetworkVal(eng'.heap, eng'.A) = NetworkVal(eng.heap, eng.A)

\* C11: right after B.setState(A.getState()) on a new engine B, B.getState()
\* equals the exported state in every field and B's forward outputs are those
\* A had when it was exported; and every later forward, backward or step on
\* A or on B leaves the exported state object and the other engine as they
\* were.
C11_RoundTripDeepCopy ==
  /\ []((eng.phase = "snapshot" /\ eng.op = "setState") =>
         LET b == eng.B[1]
             again == getStateAt(eng.heap, b)
         IN  /\ StateVal(again.heap, again.state) = StateVal(eng.heap, eng.exported[1])
             /\ StateVal(eng.heap, eng.exported[1]) = getState(eng.atExport[1])
             /\ \A p \in DOMAIN CLEAN_XOR :
                  Output(forward(NetworkVal(eng.heap, b), CLEAN_XOR[p].input))
                    = Output(forward(eng.atExport[1], CLEAN_XOR[p].input)))
  /\ [][(eng.phase = "snapshot" /\ eng'.op \in {"forward", "backward", "step"})
          => OthersUntouched]_vars

\* A was trained, exported and copied into B, and then stepped again: its
\* weights are no longer the exported ones, which B still has.
C11_SteppedAfterCopy ==
  /\ eng.phase = "snapshot"
  /\ eng.B # <<>>
  /\ eng.op = "step" /\ eng.who = "A" /\ eng.threw = "none"
  /\ NetworkVal(eng.heap, eng.A).weights # eng.atExport[1].weights
  /\ NetworkVal(eng.heap, eng.B[1]).weights = eng.atExport[1].weights
  /\ StateVal(eng.heap, eng.exported[1]).weights = eng.atExport[1].weights

\* The engine of the single-engine run, by value, before and after a step.
EngNow == NetworkVal(eng.heap, eng.net)
EngThen == NetworkVal(eng'.heap, eng'.net)

\* C21: a forward call, whatever the length of its input, leaves weights,
\* biases, weightGrads and biasGrads as they were, as values and as arrays.
C21_ForwardKeepsParameters ==
  [][(eng.phase = "engine" /\ eng'.op = "forward") =>
       /\ EngThen.weights = EngNow.weights
       /\ EngThen.biases = EngNow.biases
       /\ EngThen.weightGrads = EngNow.weightGrads
       /\ EngThen.biasGrads = EngNow.biasGrads
       /\ eng'.net.weights = eng.net.weights
       /\ eng'.net.biases = eng.net.biases
       /\ eng'.net.weightGrads = eng.net.weightGrads
       /\ eng'.net.biasGrads = eng.net.biasGrads]_vars

\* A forward call on an engine that holds gradients replaced the stored
\* activations and kept the gradients.
C21_ForwardAfterBackward ==
  /\ eng.phase = "engine"
  /\ eng.op = "forward" /\ eng.threw = "none"
  /\ eng.before.weightGrads # <<>>
  /\ EngNow.weightGrads = eng.before.weightGrads
  /\ EngNow.activations # eng.before.activations

\* C22: a backward call after a forward, with a target as long as the output
\* layer is wide, leaves weights, biases, preActivations and activations as
\* they were, as values and as arrays.
C22_BackwardKeepsForwardValues ==
  [][(/\ eng.phase = "engine"
      /\ eng'.op = "backward"
      /\ Len(eng'.arg) = eng.net.layerSizes[Len(eng.net.layerSizes)]) =>
       /\ EngThen.weights = EngNow.weights
       /\ EngThen.biases = EngNow.biases
       /\ EngThen.preActivations = EngNow.preActivations
       /\ EngThen.activations = EngNow.activations
       /\ eng'.net.weights = eng.net.weights
       /\ eng'.net.biases = eng.net.biases
       /\ eng'.net.preActivations = eng.net.preActivations
       /\ eng'.net.activations = eng.net.activations]_vars

\* A backward call with a target of the output's width computed a gradient
\* that is not zero.
C22_GradientsPopulated ==
  /\ eng.phase = "engine"
  /\ eng.op = "backward" /\ Len(eng.arg) = 1
  /\ GradsMirror(EngNow)
  /\ \E i \in 1..Len(EngNow.biasGrads) : \E j \in 1..Len(EngNow.biasGrads[i]) :
       EngNow.biasGrads[i][j] # 0
  /\ EngNow.activations = eng.before.activations /\ EngNow.activations # <<>>

\* C26: a step call after a backward replaces every weight w by
\* w - learningRate * weightGrad and every bias b by b - learningRate *
\* biasGrad, and leaves weightGrads, biasGrads, preActivations, activations
\* and the shape of every array as they were.
C26_StepSubtractsGradient ==
  [][(eng.phase = "engine" /\ eng'.op = "step" /\ EngNow.weightGrads # <<>>) =>
       LET lr == eng'.arg[1]
       IN  /\ eng'.threw = "none"
           /\ DOMAIN EngThen.weights = DOMAIN EngNow.weights
           /\ \A i \in DOMAIN EngNow.weights :
                /\ DOMAIN EngThen.weights[i] = DOMAIN EngNow.weights[i]
                /\ \A j \in DOMAIN EngNow.weights[i] :
                     /\ DOMAIN EngThen.weights[i][j] = DOMAIN EngNow.weights[i][j]
                     /\ \A k \in DOMAIN EngNow.weights[i][j] :
                          EngThen.weights[i][j][k]
                            = EngNow.weights[i][j][k] - FMul(lr, EngNow.weightGrads[i][j][k])
           /\ DOMAIN EngThen.biases = DOMAIN EngNow.biases
           /\ \A i \in DOMAIN EngNow.biases :
                /\ DOMAIN EngThen.biases[i] = DOMAIN EngNow.biases[i]
                /\ \A j \in DOMAIN EngNow.biases[i] :
                     EngThen.biases[i][j]
                       = EngNow.biases[i][j] - FMul(lr, EngNow.biasGrads[i][j])
           /\ EngThen.weightGrads = EngNow.weightGrads
           /\ EngThen.biasGrads = EngNow.biasGrads
           /\ EngThen.preActivations = EngNow.preActivations
           /\ EngThen.activations = EngNow.activations
           /\ eng'.net = eng.net]_vars

\* A step call after a backward moved a weight and a bias.
C26_ParametersMoved ==
  /\ eng.phase = "engine"
  /\ eng.op = "step" /\ eng.threw = "none"
  /\ EngNow.weights # eng.before.weights
  /\ EngNow.biases # eng.before.biases
  /\ EngNow.weightGrads = eng.before.weightGrads

\* C24: in every reachable state training.steps is not empty, its first
\* snapshot has step 0 and currentStep is an index of training.steps.
C24_PositionWithinHistory ==
  /\ Len(training.steps) >= 1
  /\ training.steps[1].step = 0
  /\ 0 <= training.currentStep
  /\ training.currentStep <= Len(training.steps) - 1

\* trainStep was applied away from the frontier, and a goToStep beyond the
\* history was asked for: the two updates that could move currentStep out.
C24_AdvancedBelowFrontier ==
  /\ op.name = "trainStep"
  /\ Len(training.steps) = MaxSteps
  /\ training.currentStep < Len(training.steps) - 1

\* C29: in every reachable state the weights and biases of training.network
\* equal those of the snapshot at currentStep.
C29_NetworkMatchesSnapshot ==
  /\ training.network.weights = training.steps[training.currentStep + 1].state.weights
  /\ training.network.biases = training.steps[training.currentStep + 1].state.biases

\* C30: for the same seed the generator of seededRandom and the generator the
\* Network constructor builds agree: the same lanes after seeding and after
\* every call, the same result of every call, the same generator after the
\* warm-up, and so the same n-th value handed to the caller for every n.
C30_GeneratorCopiesAgree ==
  gen.phase = "gen" =>
    /\ gen.lanes = gen.ctorLanes
    /\ gen.n > 0 => gen.result = gen.ctorResult
    /\ gen.n = WarmUp => (gen.lanes = seededRandom(gen.seed)
                          /\ gen.ctorLanes = CtorSeeded(gen.seed))
    /\ gen.drawn = Draws(seededRandom(gen.seed), Len(gen.drawn))
    /\ gen.drawn = CtorDraws(CtorSeeded(gen.seed), Len(gen.drawn))

\* Both copies have handed out every value the run follows, and the values
\* are not all the same.
C30_AllValuesCompared ==
  /\ gen.phase = "gen"
  /\ Len(gen.drawn) = MaxGenDraws
  /\ gen.result = gen.ctorResult
  /\ gen.drawn[1] # gen.drawn[2]

\* The two seeds of a test, in either order.
SeedsOf(pair, a, b) == {a, b} = {pair[1], pair[2]}

C27_HeaderMatchesPanel ==
  (eng.phase = "engine" /\ Finite(eng.first)) =>
    \A p \in DOMAIN CLEAN_XOR :
      LiveCorrect(EngNow, CLEAN_XOR[p]) <=> PanelCorrect(EngNow, CLEAN_XOR[p])

\* The calls of the epoch so far that are calls of step.
StepCalls == {k \in DOMAIN eng.calls : eng.calls[k].call = "step"}

\* C23: one trainStep runs on an engine rehydrated from the snapshot at
\* currentStep and calls, for each point of the dataset in order, forward
\* with the point's input, backward with its target and step with the
\* learning rate: every backward directly follows the forward of the same
\* point, every step the backward of the same point, and when the updater
\* returns there has been one parameter update per point and the state it
\* returns is the one the application's updater computes.
C23_EpochCallsInOrder ==
  eng.phase = "epoch" =>
    /\ eng.start.weights = eng.prev.steps[eng.prev.currentStep + 1].state.weights
    /\ eng.start.biases = eng.prev.steps[eng.prev.currentStep + 1].state.biases
    /\ \A k \in DOMAIN eng.calls :
         LET c == eng.calls[k]
         IN  /\ c.point = (k - 1) \div 3 + 1
             /\ c.call = "forward" =>
                  /\ k % 3 = 1
                  /\ c.arg = eng.data[c.point].input
             /\ c.call = "backward" =>
                  /\ k > 1
                  /\ eng.calls[k - 1].call = "forward"
                  /\ eng.calls[k - 1].point = c.point
                  /\ c.arg = eng.data[c.point].target
             /\ c.call = "step" =>
                  /\ k > 1
                  /\ eng.calls[k - 1].call = "backward"
                  /\ eng.calls[k - 1].point = c.point
                  /\ c.arg = <<eng.learningRate>>
    /\ eng.updates = Cardinality(StepCalls)
    /\ eng.pc \in {"done", "returned"} =>
         /\ Len(eng.calls) = 3 * Len(eng.data)
         /\ eng.updates = Len(eng.data)
    /\ eng.pc = "returned" =>
         eng.returned[1] = TrainStepUpd(eng.prev, eng.data, eng.confidencePenalty,
                                        eng.learningRate, eng.fresh)

\* An epoch over two points has returned, started from the first snapshot of
\* a history of two.
C23_EpochFromEarlierSnapshot ==
  /\ eng.phase = "epoch"
  /\ eng.pc = "returned"
  /\ Len(eng.data) = 2
  /\ eng.updates = 2
  /\ Len(eng.prev.steps) = 2
  /\ eng.prev.currentStep = 0
  /\ eng.returned[1].network.weights # eng.start.weights

\* From some point on the only steps are expiries of the timeout and renders.
OnlyAutoPlay == <>[][TimerExpires \/ ReactCommits]_vars

====
